---- MODULE Spec2Model ----
(***************************************************************************)
(* Model of src/app.py: parse_scenarios_from_csv (the anchor-driven block  *)
(* extractor) and the Streamlit script that loads a file, offers an upload *)
(* and renders the final totals.                                           *)
(*                                                                         *)
(* Text is modelled as a sequence of one-character strings, so that        *)
(* strip, replace, lower, split, substring search and float() are computed *)
(* as Python computes them.  Rows and columns are 0-based as in the code;  *)
(* a grid is a sequence of rows, a row a sequence of cells, and a cell is  *)
(* the text str() gives for it ("nan" for a missing cell).                 *)
(***************************************************************************)
EXTENDS Integers, Sequences, FiniteSets

VARIABLES
  defaultFile,         \* the file 'FY27 Purchase Plan (Brandon).csv' on disk
  temp_upload,         \* the file temp_upload.csv on disk
  pc,                  \* position of the script run
  call,                \* which call of parse_scenarios_from_csv is running
  df,                  \* the grid read by pd.read_csv
  pending,             \* the anchors of cumulative_rows not yet visited
  scenarios,           \* the mapping built by parse_scenarios_from_csv
  produced,            \* per visited anchor: row_idx, scenario_name, q_row_idx, timeline, values
  reads,               \* <<row_idx, r>>: row r was read while resolving anchor row_idx
  data,                \* the script's data
  rendered,            \* the widgets shown by the run
  selected_scenarios,  \* the ticked checkboxes
  final_totals,        \* the script's final_totals
  metric_totals,       \* the total shown by st.metric per plotted scenario
  raw_val,             \* a data-row cell handed to the value cleaning
  final_val,           \* the entry appended to values for it
  vpc                  \* position of the value cleaning

appVars == <<defaultFile, temp_upload, pc, call, df, pending, scenarios, produced,
             reads, data, rendered, selected_scenarios, final_totals, metric_totals>>

valueVars == <<raw_val, final_val, vpc>>

vars == <<appVars, valueVars>>

-----------------------------------------------------------------------------
(* Bounds of the model                                                     *)

\* number of chosen (non-filler) rows of an uploaded grid
MaxRows == 3

\* length of a raw data cell handed to the value cleaning
MaxLen == 3

-----------------------------------------------------------------------------
(* Program constants                                                       *)

\* range(row_idx, max(0, row_idx - 50), -1)
NameWindow == 50

\* range(row_idx, max(0, row_idx - 20), -1)
QuarterWindow == 20

\* multiplier = 1000
KMultiplier == 1000

\* target_label = "Cumulative Total Cash Flow"
target_label ==
  <<"C","u","m","u","l","a","t","i","v","e"," ","T","o","t","a","l"," ",
    "C","a","s","h"," ","F","l","o","w">>

VariablesText == <<"V","a","r","i","a","b","l","e","s">>

NanText == <<"n","a","n">>

InfText == <<"i","n","f">>

InfinityText == <<"i","n","f","i","n","i","t","y">>

YearPattern == <<"C","Y","2","0">>

Q1 == <<"Q","1">>

Q2 == <<"Q","2">>

Q3 == <<"Q","3">>

Q4 == <<"Q","4">>

QuarterTokens == {Q1, Q2, Q3, Q4}

ScenarioPrefix == <<"S","c","e","n","a","r","i","o"," ">>

-----------------------------------------------------------------------------
(* Python string operations                                                *)

Whitespace == {" ", "\t", "\n", "\r"}

Digits == <<"0","1","2","3","4","5","6","7","8","9">>

UpperLetters ==
  <<"A","B","C","D","E","F","G","H","I","J","K","L","M",
    "N","O","P","Q","R","S","T","U","V","W","X","Y","Z">>

LowerLetters ==
  <<"a","b","c","d","e","f","g","h","i","j","k","l","m",
    "n","o","p","q","r","s","t","u","v","w","x","y","z">>

IsDigit(ch) == \E i \in 1..10 : Digits[i] = ch

DigitVal(ch) == (CHOOSE i \in 1..10 : Digits[i] = ch) - 1

LowerChar(ch) ==
  IF \E i \in 1..26 : UpperLetters[i] = ch
    THEN LowerLetters[CHOOSE i \in 1..26 : UpperLetters[i] = ch]
    ELSE ch

\* str.lower()
Lower(s) == [i \in 1..Len(s) |-> LowerChar(s[i])]

\* sub in s
Contains(s, sub) ==
  \E i \in 0..(Len(s) - Len(sub)) : SubSeq(s, i + 1, i + Len(sub)) = sub

\* str.strip()
Strip(s) ==
  IF s = <<>> \/ (s[1] \notin Whitespace /\ s[Len(s)] \notin Whitespace) THEN s ELSE
  LET keep == {i \in 1..Len(s) : s[i] \notin Whitespace}
  IN  IF keep = {} THEN <<>>
      ELSE LET lo == CHOOSE i \in keep : \A j \in keep : i <= j
               hi == CHOOSE i \in keep : \A j \in keep : i >= j
           IN  SubSeq(s, lo, hi)

RECURSIVE Replace(_, _, _)
\* str.replace(old, new) for a one-character old
Replace(s, old, new) ==
  IF s = <<>> THEN <<>>
  ELSE (IF Head(s) = old THEN new ELSE <<Head(s)>>) \o Replace(Tail(s), old, new)

\* s.split(' ')[0]
SplitFirst(s) ==
  LET sp == {i \in 1..Len(s) : s[i] = " "}
  IN  IF sp = {} THEN s
      ELSE SubSeq(s, 1, (CHOOSE i \in sp : \A j \in sp : i <= j) - 1)

RECURSIVE IntToStr(_)
\* str(n) of a non-negative integer, as in f"Scenario {row_idx}"
IntToStr(n) ==
  IF n < 10 THEN <<Digits[n + 1]>>
  ELSE IntToStr(n \div 10) \o <<Digits[(n % 10) + 1]>>

-----------------------------------------------------------------------------
(* Floating point values: a finite number, not-a-number or infinity        *)

Num(n) == [kind |-> "num", num |-> n]

NaN == [kind |-> "nan", num |-> 0]

Inf(sign) == [kind |-> "inf", num |-> sign]

RECURSIVE DigitsToInt(_)
DigitsToInt(s) ==
  IF s = <<>> THEN 0
  ELSE DigitsToInt(SubSeq(s, 1, Len(s) - 1)) * 10 + DigitVal(s[Len(s)])

\* float(text): ok = FALSE stands for ValueError.  Exact for text without
\* '.', '_' and exponents, which no cell of the model contains.
ParseFloat(text) ==
  LET t    == Strip(text)
      neg  == t /= <<>> /\ t[1] = "-"
      sgn  == t /= <<>> /\ t[1] \in {"-", "+"}
      body == IF sgn THEN Tail(t) ELSE t
      low  == Lower(body)
      mul  == IF neg THEN 0 - 1 ELSE 1
  IN  IF low = NanText THEN [ok |-> TRUE, val |-> NaN]
      ELSE IF low \in {InfText, InfinityText} THEN [ok |-> TRUE, val |-> Inf(mul)]
      ELSE IF body /= <<>> /\ \A i \in 1..Len(body) : IsDigit(body[i])
        THEN [ok |-> TRUE, val |-> Num(mul * DigitsToInt(body))]
      ELSE [ok |-> FALSE, val |-> Num(0)]

\* float * int
Times(v, m) == IF v.kind = "num" THEN Num(v.num * m) ELSE v

\* Extract & Clean Data Value (lines 78-93): the entry appended to values
CleanValue(raw) ==
  LET clean_val  == Replace(Replace(Replace(raw, "$", <<>>), ",", <<>>), "-", <<"0">>)
      has_k      == Contains(Lower(clean_val), <<"k">>)
      stripped   == IF has_k THEN Replace(Lower(clean_val), "k", <<>>) ELSE clean_val
      multiplier == IF has_k THEN KMultiplier ELSE 1
      parsed     == ParseFloat(stripped)
  IN  IF parsed.ok THEN Times(parsed.val, multiplier) ELSE Num(0)

-----------------------------------------------------------------------------
(* The grid (pandas DataFrame read with header=None)                       *)

NRows(g) == Len(g)

NCols(g) == IF g = <<>> THEN 0 ELSE Len(g[1])

\* df.iloc[r]: a negative r counts from the end
Row(g, r) == IF r < 0 THEN g[NRows(g) + r + 1] ELSE g[r + 1]

\* str(df.iloc[r, c]) for a column c of the grid
Cell(g, r, c) == Row(g, r)[c + 1]

\* cumulative_rows (line 26): rows whose column 0 contains the label, ascending
CumulativeRows(g) ==
  LET hits == {r \in 0..(NRows(g) - 1) : Contains(Cell(g, r, 0), target_label)}
  IN  [i \in 1..Cardinality(hits) |->
         CHOOSE r \in hits : Cardinality({h \in hits : h < r}) = i - 1]

\* a range that also visits its stop row
ScanRangeInclusive(row_idx, window) ==
  LET stop == IF row_idx - window > 0 THEN row_idx - window ELSE 0
  IN  [i \in 1..(row_idx - stop + 1) |-> row_idx - i + 1]

\* range(row_idx, max(0, row_idx - window), -1)
ScanRange(row_idx, window) ==
  LET stop == IF row_idx - window > 0 THEN row_idx - window ELSE 0
  IN  [i \in 1..(row_idx - stop) |-> row_idx - i + 1]

\* f"Scenario {row_idx}"
FallbackName(row_idx) == ScenarioPrefix \o IntToStr(row_idx)

\* the marker row itself taken as the name row
NameRowSame(r) == r

\* "Name is in the row above": the row index of df.iloc[r-1, 0] (line 39)
NameRow(r) == r - 1

\* the whole years-row cell taken as the year
YearTokenWhole(y_val) == y_val

\* current_year = y_val.split(' ')[0] (line 70)
YearToken(y_val) == SplitFirst(y_val)

\* position of the iteration that breaks out of a loop, 0 when none does;
\* hits are the positions whose break condition holds
FirstHit(hits) ==
  IF hits = {} THEN 0 ELSE CHOOSE i \in hits : \A j \in hits : i <= j

\* the rows visited by a loop over rs that breaks at position stop
Visited(rs, stop) == {rs[i] : i \in 1..(IF stop = 0 THEN Len(rs) ELSE stop)}

\* A. Find Scenario Name (lines 32-42); raised = IndexError of df.iloc[r, 1]
NameScan(g, row_idx) ==
  LET rs == ScanRange(row_idx, NameWindow) IN
  IF rs /= <<>> /\ NCols(g) < 2
    THEN [raised |-> TRUE, name |-> FallbackName(row_idx), rows |-> {rs[1]}]
  ELSE
    LET is_marker(r) == Strip(Cell(g, r, 1)) = VariablesText
        stop == FirstHit({i \in 1..Len(rs) : is_marker(rs[i])})
    IN  IF stop = 0
          THEN [raised |-> FALSE, name |-> FallbackName(row_idx), rows |-> Visited(rs, stop)]
        ELSE LET r == rs[stop]
                 potential_name == Strip(Cell(g, NameRow(r), 0))
             IN  [raised |-> FALSE,
                  name   |-> IF potential_name /= <<>> /\ Lower(potential_name) /= NanText
                               THEN potential_name ELSE FallbackName(row_idx),
                  rows   |-> Visited(rs, stop) \cup {NameRow(r)}]

\* B. Find Timeline (lines 46-52): q_row_idx, or -1
QuarterScan(g, row_idx) ==
  LET rs == ScanRange(row_idx, QuarterWindow)
      has(r, tok) == \E i \in 1..Len(Row(g, r)) : Row(g, r)[i] = tok
      is_header(r) == has(r, Q1) /\ has(r, Q2)
      stop == FirstHit({i \in 1..Len(rs) : is_header(rs[i])})
  IN  [q_row_idx |-> IF stop = 0 THEN 0 - 1 ELSE rs[stop], rows |-> Visited(rs, stop)]

RECURSIVE ColumnWalk(_, _, _, _, _, _, _)
\* the loop over columns (lines 59-93)
ColumnWalk(g, q_row_idx, row_idx, c, current_year, timeline, values) ==
  IF c >= Len(Row(g, q_row_idx))
    THEN [timeline |-> timeline, values |-> values]
  ELSE LET y_val == Strip(Row(g, q_row_idx - 1)[c + 1])
           q_val == Strip(Row(g, q_row_idx)[c + 1])
           year  == IF Contains(y_val, YearPattern) THEN YearToken(y_val)
                    ELSE current_year
       IN  IF q_val \in QuarterTokens
             THEN ColumnWalk(g, q_row_idx, row_idx, c + 1, year,
                             Append(timeline, year \o <<" ">> \o q_val),
                             Append(values, CleanValue(Row(g, row_idx)[c + 1])))
             ELSE ColumnWalk(g, q_row_idx, row_idx, c + 1, year, timeline, values)

\* one iteration of "for row_idx in cumulative_rows" (lines 28-99)
AnchorBody(g, row_idx) ==
  LET ns == NameScan(g, row_idx)
      qs == QuarterScan(g, row_idx)
      q  == qs.q_row_idx
      w  == ColumnWalk(g, q, row_idx, 1, <<>>, <<>>, <<>>)
  IN  IF ns.raised
        THEN [raised |-> TRUE, row_idx |-> row_idx, name |-> ns.name,
              q_row_idx |-> 0 - 1, timeline |-> <<>>, values |-> <<>>,
              rows |-> ns.rows]
      ELSE IF q = 0 - 1
        THEN [raised |-> FALSE, row_idx |-> row_idx, name |-> ns.name,
              q_row_idx |-> q, timeline |-> <<>>, values |-> <<>>,
              rows |-> ns.rows \cup qs.rows]
      ELSE [raised |-> FALSE, row_idx |-> row_idx, name |-> ns.name,
            q_row_idx |-> q, timeline |-> w.timeline, values |-> w.values,
            rows |-> ns.rows \cup qs.rows \cup {q, q - 1, row_idx}]

EmptyMap == [n \in {} |-> {}]

\* an assignment that keeps an entry already stored under the name
StoreFirst(map, name, entry) ==
  [n \in (DOMAIN map) \cup {name} |-> IF n \in DOMAIN map THEN map[n] ELSE entry]

\* scenarios[scenario_name] = {...} (lines 96-99)
Store(map, name, entry) ==
  [n \in (DOMAIN map) \cup {name} |-> IF n = name THEN entry ELSE map[n]]

-----------------------------------------------------------------------------
(* Input files                                                             *)

NameCell == <<"A", " ">>

Year2024 == <<"C","Y","2","0","2","4">>

Year2025 == <<"C","Y","2","0","2","5">>

Year2025Units ==
  <<"C","Y","2","0","2","5"," ","(","5","0","0"," ","u","n","i","t","s",")">>

PaddedQ3 == <<" ","Q","3"," ">>

PaddedVariables == <<" ">> \o VariablesText \o <<" ">>

NetLabel == <<"N","e","t"," ">> \o target_label \o <<" ","(","U","S","D",")">>

Dollar10 == <<"$","1","0">>

Dollar20 == <<"$","2","0">>

Dollar30 == <<"$","3","0">>

Dash == <<"-">>

OneK == <<"1","k">>

TitleRow == <<NameCell, NanText, NanText, NanText>>

VariablesRow == <<NanText, VariablesText, NanText, NanText>>

YearsRow == <<NanText, Year2024, Year2024, Year2025>>

QuartersRow == <<NanText, Q1, Q2, Q1>>

CumulativeRow == <<target_label, Dollar10, Dollar20, Dollar30>>

NameYearsRow == <<NameCell, Year2024, NanText, Year2025Units>>

VarQuartersRow == <<NanText, VariablesText, Q1, Q2>>

PaddedQuartersRow == <<Q1, NanText, Q2, PaddedQ3>>

FillerRow == <<NanText, NanText, NanText, NanText>>

AnchorRow == <<target_label, NanText, Dollar10, Dash>>

NetAnchorRow == <<NetLabel, NanText, OneK, NanText>>

QuartersAnchorRow == <<target_label, NanText, Q1, Q2>>

MarkerAnchorRow == <<target_label, PaddedVariables, Q1, Q2>>

\* a chosen row, preceded by gap filler rows
RowChoices ==
  {[cells |-> r, gap |-> 0] :
     r \in {NameYearsRow, VarQuartersRow, PaddedQuartersRow,
            AnchorRow, NetAnchorRow, MarkerAnchorRow}}
  \cup {[cells |-> AnchorRow, gap |-> n] : n \in {QuarterWindow - 2, QuarterWindow - 1}}
  \cup {[cells |-> QuartersAnchorRow, gap |-> n] : n \in {NameWindow - 2, NameWindow - 1}}

RECURSIVE ExpandRows(_)
ExpandRows(cs) ==
  IF cs = <<>> THEN <<>>
  ELSE [i \in 1..Head(cs).gap |-> FillerRow] \o <<Head(cs).cells>> \o ExpandRows(Tail(cs))

ChoiceSeqs(choices) == UNION {[1..k -> choices] : k \in 1..MaxRows}

WideGrids == {ExpandRows(cs) : cs \in ChoiceSeqs(RowChoices)}

\* a file with one field per line
FirstColumn(g) == [r \in 1..Len(g) |-> <<g[r][1]>>]

NarrowGrids ==
  {FirstColumn(ExpandRows(cs)) : cs \in ChoiceSeqs({c \in RowChoices : c.gap = 0})}

Grids == WideGrids \cup NarrowGrids

\* the well-formed block: name, Variables, years, quarters, cumulative row
ExampleGrid == <<TitleRow, VariablesRow, YearsRow, QuartersRow, CumulativeRow>>

File(g) == [exists |-> TRUE, rows |-> g]

FileNotFound == [exists |-> FALSE, rows |-> <<>>]

DefaultFiles == {FileNotFound, File(ExampleGrid), File(<<FillerRow>>)}

-----------------------------------------------------------------------------
(* The script                                                              *)

NoData == [none |-> TRUE, map |-> EmptyMap]

Mapping(m) == [none |-> FALSE, map |-> m]

\* "if data": None and the empty dict are falsy
Truthy(d) == ~d.none /\ DOMAIN d.map /= {}

\* the first value taken as the total
FinalTotalFirst(values) == values[1]

\* final_totals[sc_name] = df["Cumulative Cash Flow"].iloc[-1] (line 156)
FinalTotal(values) == values[Len(values)]

\* final_totals after the loop of lines 147-161
FinalTotals(d, selected) ==
  [n \in {m \in selected : d.map[m].values /= <<>>} |-> FinalTotal(d.map[n].values)]

\* total = final_totals.get(item["name"], 0) (line 175)
MetricTotal(totals, name) == IF name \in DOMAIN totals THEN totals[name] ELSE Num(0)

Init ==
  /\ defaultFile \in DefaultFiles
  /\ temp_upload = FileNotFound
  /\ pc = "read"
  /\ call = "default"
  /\ df = <<>>
  /\ pending = <<>>
  /\ scenarios = EmptyMap
  /\ produced = <<>>
  /\ reads = {}
  /\ data = NoData
  /\ rendered = {}
  /\ selected_scenarios = {}
  /\ final_totals = EmptyMap
  /\ metric_totals = EmptyMap
  /\ raw_val = <<>>
  /\ final_val = Num(0)
  /\ vpc = "idle"

CurrentFile == IF call = "default" THEN defaultFile ELSE temp_upload

\* after parse_scenarios_from_csv returns: line 116 or line 126
AfterCall == IF call = "default" THEN "file_loaded" ELSE "visualize"

\* lines 15-26: the file is read and the anchors are located
ReadCsv ==
  /\ pc = "read"
  /\ CurrentFile.exists
  /\ df' = CurrentFile.rows
  /\ pending' = CumulativeRows(CurrentFile.rows)
  /\ scenarios' = EmptyMap
  /\ produced' = <<>>
  /\ reads' = {}
  /\ pc' = "loop"
  /\ UNCHANGED <<defaultFile, temp_upload, call, data, rendered, selected_scenarios,
                 final_totals, metric_totals, valueVars>>

\* lines 18-19: except FileNotFoundError: return None
ReadCsvNotFound ==
  /\ pc = "read"
  /\ ~CurrentFile.exists
  /\ data' = NoData
  /\ pc' = AfterCall
  /\ UNCHANGED <<defaultFile, temp_upload, call, df, pending, scenarios, produced, reads,
                 rendered, selected_scenarios, final_totals, metric_totals, valueVars>>

\* lines 28-99: one anchor; an IndexError ends the run
ProcessAnchor ==
  /\ pc = "loop"
  /\ pending /= <<>>
  /\ \E b \in {AnchorBody(df, Head(pending))} :
       /\ reads' = reads \cup {<<b.row_idx, r>> : r \in b.rows}
       /\ produced' = Append(produced, [row_idx |-> b.row_idx, raised |-> b.raised,
                                         name |-> b.name, q_row_idx |-> b.q_row_idx,
                                         timeline |-> b.timeline, values |-> b.values])
       /\ IF b.raised
            THEN pc' = "crashed" /\ UNCHANGED <<pending, scenarios>>
            ELSE /\ pc' = "loop"
                 /\ pending' = Tail(pending)
                 /\ scenarios' = IF b.q_row_idx /= 0 - 1
                                   THEN Store(scenarios, b.name,
                                              [timeline |-> b.timeline, values |-> b.values])
                                   ELSE scenarios
  /\ UNCHANGED <<defaultFile, temp_upload, call, df, data, rendered, selected_scenarios,
                 final_totals, metric_totals, valueVars>>

\* line 101: return scenarios
Return ==
  /\ pc = "loop"
  /\ pending = <<>>
  /\ data' = Mapping(scenarios)
  /\ pc' = AfterCall
  /\ UNCHANGED <<defaultFile, temp_upload, call, df, pending, scenarios, produced, reads,
                 rendered, selected_scenarios, final_totals, metric_totals, valueVars>>

\* line 116 with data: the upload is not offered
DefaultLoaded ==
  /\ pc = "file_loaded"
  /\ Truthy(data)
  /\ pc' = "visualize"
  /\ UNCHANGED <<defaultFile, temp_upload, call, df, pending, scenarios, produced, reads,
                 data, rendered, selected_scenarios, final_totals, metric_totals, valueVars>>

\* lines 116-119 with nothing uploaded
OfferUpload ==
  /\ pc = "file_loaded"
  /\ ~Truthy(data)
  /\ rendered' = rendered \cup {"error", "uploader"}
  /\ pc' = "visualize"
  /\ UNCHANGED <<defaultFile, temp_upload, call, df, pending, scenarios, produced, reads,
                 data, selected_scenarios, final_totals, metric_totals, valueVars>>

\* lines 116-123 with an uploaded file: it is saved and parsed
Upload ==
  /\ pc = "file_loaded"
  /\ ~Truthy(data)
  /\ \E g \in Grids : temp_upload' = File(g)
  /\ rendered' = rendered \cup {"error", "uploader"}
  /\ call' = "upload"
  /\ pc' = "read"
  /\ UNCHANGED <<defaultFile, df, pending, scenarios, produced, reads,
                 data, selected_scenarios, final_totals, metric_totals, valueVars>>

\* lines 126-222: the checkboxes, the totals, the metrics, the chart, the table
Visualize ==
  /\ pc = "visualize"
  /\ Truthy(data)
  /\ \E sel \in SUBSET (DOMAIN data.map) :
       /\ selected_scenarios' = sel
       /\ final_totals' = FinalTotals(data, sel)
       /\ metric_totals' = IF sel = {} THEN EmptyMap
                            ELSE [n \in sel |-> MetricTotal(FinalTotals(data, sel), n)]
       /\ rendered' = rendered \cup {"checkboxes", "expander"}
                         \cup (IF sel = {} THEN {"warning"} ELSE {"metrics", "chart", "table"})
  /\ pc' = "done"
  /\ UNCHANGED <<defaultFile, temp_upload, call, df, pending, scenarios, produced, reads,
                 data, valueVars>>

\* lines 223-224: st.info("Waiting for data...")
Waiting ==
  /\ pc = "visualize"
  /\ ~Truthy(data)
  /\ rendered' = rendered \cup {"waiting"}
  /\ pc' = "done"
  /\ UNCHANGED <<defaultFile, temp_upload, call, df, pending, scenarios, produced, reads,
                 data, selected_scenarios, final_totals, metric_totals, valueVars>>

Next ==
  \/ ReadCsv
  \/ ReadCsvNotFound
  \/ ProcessAnchor
  \/ Return
  \/ DefaultLoaded
  \/ OfferUpload
  \/ Upload
  \/ Visualize
  \/ Waiting

Spec == Init /\ [][Next]_vars

-----------------------------------------------------------------------------
(* The value cleaning of lines 78-93 on its own                            *)

ValueAlphabet == {"$", ",", "-", "k", "K", "5", "n", "a"}

RawCells == UNION {[1..k -> ValueAlphabet] : k \in 0..MaxLen}

InitValue ==
  /\ defaultFile = FileNotFound
  /\ temp_upload = FileNotFound
  /\ pc = "idle"
  /\ call = "default"
  /\ df = <<>>
  /\ pending = <<>>
  /\ scenarios = EmptyMap
  /\ produced = <<>>
  /\ reads = {}
  /\ data = NoData
  /\ rendered = {}
  /\ selected_scenarios = {}
  /\ final_totals = EmptyMap
  /\ metric_totals = EmptyMap
  /\ raw_val \in RawCells
  /\ final_val = Num(0)
  /\ vpc = "raw"

\* lines 78-93 for one cell
CleanCell ==
  /\ vpc = "raw"
  /\ final_val' = CleanValue(raw_val)
  /\ vpc' = "cleaned"
  /\ UNCHANGED <<raw_val, appVars>>

NextValue == CleanCell

SpecValue == InitValue /\ [][NextValue]_vars

-----------------------------------------------------------------------------
(* Properties                                                              *)

Last(seq) == seq[Len(seq)]

\* the data holds the mapping returned by the call that filled produced
Returned == pc \in {"file_loaded", "visualize", "done"} /\ ~data.none

\* the anchors visited so far that stored a scenario
Stored == {i \in DOMAIN produced : produced[i].q_row_idx /= 0 - 1}

HasBoth(g, r) ==
  /\ \E c \in 0..(NCols(g) - 1) : Cell(g, r, c) = Q1
  /\ \E c \in 0..(NCols(g) - 1) : Cell(g, r, c) = Q2

\* the rows of the 20-row window above anchor R that hold both Q1 and Q2
HeaderRows(g, R) == {r \in 0..R : r > R - QuarterWindow /\ HasBoth(g, r)}

\* e.q_row_idx is the first header row met going up from the anchor
FirstHeader(g, e) ==
  /\ e.q_row_idx \in HeaderRows(g, e.row_idx)
  /\ \A r \in HeaderRows(g, e.row_idx) : r <= e.q_row_idx

\* the i-th smallest element of a set of numbers
Nth(S, i) == CHOOSE x \in S : Cardinality({y \in S : y < x}) = i - 1

\* the year in force at column c: from the nearest year cell at or left of c
YearAt(g, q, c) ==
  LET ys == {k \in 1..c : Contains(Strip(Cell(g, q - 1, k)), YearPattern)}
  IN  IF ys = {} THEN <<>>
      ELSE SplitFirst(Strip(Cell(g, q - 1, CHOOSE k \in ys : \A j \in ys : j <= k)))

\* timeline and values over the quarter columns cols, in column order
SeriesOver(g, e, cols) ==
  [timeline |-> [i \in 1..Cardinality(cols) |->
                   YearAt(g, e.q_row_idx, Nth(cols, i)) \o <<" ">>
                     \o Strip(Cell(g, e.q_row_idx, Nth(cols, i)))],
   values   |-> [i \in 1..Cardinality(cols) |->
                   CleanValue(Cell(g, e.row_idx, Nth(cols, i)))]]

ExactQuarterCols(g, q) == {c \in 1..(NCols(g) - 1) : Cell(g, q, c) \in QuarterTokens}

StrippedQuarterCols(g, q) ==
  {c \in 1..(NCols(g) - 1) : Strip(Cell(g, q, c)) \in QuarterTokens}

\* C1 as stated: for every anchor with a quarters row, the timeline and the
\* values hold one entry per column whose quarters-row cell is exactly Q1..Q4,
\* in column order, labelled with the year in force, and nothing else.
C1_ExactQuarterColumns ==
  \A i \in Stored :
    LET e == produced[i]
        s == SeriesOver(df, e, ExactQuarterCols(df, e.q_row_idx))
    IN  /\ FirstHeader(df, e)
        /\ e.timeline = s.timeline
        /\ e.values = s.values
        /\ Len(e.timeline) = Len(e.values)

\* C1 amended: the quarter columns are those whose quarters-row cell is one of
\* Q1..Q4 after surrounding white space is stripped; one timeline entry
\* "<year> <quarter>" and one value per such column, in column order.
C1_StrippedQuarterColumns ==
  \A i \in Stored :
    LET e    == produced[i]
        cols == StrippedQuarterCols(df, e.q_row_idx)
        s    == SeriesOver(df, e, cols)
    IN  /\ FirstHeader(df, e)
        /\ e.timeline = s.timeline
        /\ e.values = s.values
        /\ Len(e.timeline) = Cardinality(cols)
        /\ Len(e.values) = Cardinality(cols)

\* a scenario was extracted over a padded quarter cell and a carried year
C1_Witness ==
  \E i \in Stored :
    LET e == produced[i] IN
      /\ StrippedQuarterCols(df, e.q_row_idx) /= ExactQuarterCols(df, e.q_row_idx)
      /\ Len(e.timeline) >= 2
      /\ \E c \in StrippedQuarterCols(df, e.q_row_idx) :
           /\ ~Contains(Cell(df, e.q_row_idx - 1, c), YearPattern)
           /\ YearAt(df, e.q_row_idx, c) /= <<>>

\* the value the claim gives a data-row cell
ClaimedValue(raw) ==
  LET t == Replace(Replace(raw, "$", <<>>), ",", <<>>)
      k == t /= <<>> /\ Last(t) \in {"k", "K"}
      n == ParseFloat(IF k THEN SubSeq(t, 1, Len(t) - 1) ELSE t)
      v == IF n.ok THEN n.val ELSE Num(0)
  IN  IF t = <<"-">> THEN Num(0)
      ELSE IF k THEN Times(v, KMultiplier) ELSE v

\* C2: '$' and ',' are stripped, only a bare "-" becomes 0, only a trailing
\* k/K is stripped and multiplies by 1000, the rest is converted unchanged.
C2_ValueParsing == vpc = "cleaned" => final_val = ClaimedValue(raw_val)

\* C3: every entry of every extracted scenario's values is a finite number;
\* a cell that is not a number (text, empty, missing) gives exactly 0.
C3_MalformedCellsAreZero ==
  \A i \in Stored : \A j \in DOMAIN produced[i].values :
    produced[i].values[j].kind = "num"

\* C4: parse_scenarios_from_csv never ends with an exception on a grid that
\* was read.
C4_NeverRaises == pc /= "crashed"

\* the anchor of largest row index among the stored anchors named n
LastStored(n) ==
  CHOOSE i \in Stored :
    /\ produced[i].name = n
    /\ \A j \in Stored : produced[j].name = n => produced[j].row_idx <= produced[i].row_idx

\* C5: the returned mapping has one entry per distinct resolved name among the
\* anchors that produced a scenario, holding the data of the one with the
\* largest row index.
C5_LastWriteWins ==
  Returned =>
    /\ DOMAIN data.map = {produced[i].name : i \in Stored}
    /\ Cardinality(DOMAIN data.map) = Cardinality({produced[i].name : i \in Stored})
    /\ \A n \in DOMAIN data.map :
         data.map[n] = [timeline |-> produced[LastStored(n)].timeline,
                        values   |-> produced[LastStored(n)].values]

\* two anchors resolved to one name with different data, and the mapping was returned
C5_Witness ==
  /\ Returned
  /\ \E i, j \in Stored :
       /\ i < j
       /\ produced[i].name = produced[j].name
       /\ produced[i].values /= produced[j].values

\* the marker rows of the 50-row window above anchor R
MarkerRows(g, R) ==
  {m \in 0..R : /\ m > R - NameWindow
               /\ NCols(g) >= 2
               /\ Strip(Cell(g, m, 1)) = VariablesText}

\* the name the claim gives anchor R
ClaimedName(g, R) ==
  LET ms   == MarkerRows(g, R)
      m    == CHOOSE x \in ms : \A y \in ms : y <= x
      cand == IF m = 0 THEN <<>> ELSE Strip(Cell(g, m - 1, 0))
  IN  IF ms /= {} /\ cand /= <<>> /\ Lower(cand) /= NanText
        THEN cand
        ELSE ScenarioPrefix \o IntToStr(R)

\* the grid with every Variables marker overwritten by other text
WithoutMarkers(g) ==
  [r \in 1..Len(g) |->
     [c \in 1..Len(g[r]) |->
        IF c = 2 /\ Strip(g[r][c]) = VariablesText THEN <<"x">> ELSE g[r][c]]]

\* C6: the name is the stripped column-0 text of the row above the first
\* Variables row met going up within the 50-row window when that text is not
\* empty or missing, and "Scenario <R>" otherwise; the timeline and values do
\* not depend on the name found.
C6_NameResolution ==
  (produced /= <<>> /\ ~Last(produced).raised) =>
    LET e == Last(produced)
        b == AnchorBody(WithoutMarkers(df), e.row_idx)
    IN  /\ e.name = ClaimedName(df, e.row_idx)
        /\ e.q_row_idx = b.q_row_idx
        /\ e.timeline = b.timeline
        /\ e.values = b.values

\* a real name was found at the far end of the window, and a scenario stored
C6_Witness ==
  /\ produced /= <<>>
  /\ Len(produced) \in Stored
  /\ LET e == Last(produced) IN
       /\ e.name = <<"A">>
       /\ MarkerRows(df, e.row_idx) = {e.row_idx - (NameWindow - 1)}

\* C7: an anchor without a quarters row in its 20-row window raises nothing
\* and adds no entry.
C7_SkippedAnchor ==
  /\ \A i \in DOMAIN produced :
       HeaderRows(df, produced[i].row_idx) = {} =>
         ~produced[i].raised /\ i \notin Stored
  /\ pc \in {"loop", "crashed"} => DOMAIN scenarios = {produced[i].name : i \in Stored}

RECURSIVE SumValues(_)
SumValues(values) ==
  IF values = <<>> THEN Num(0)
  ELSE LET rest == SumValues(Tail(values)) IN
       IF Head(values).kind = "num" /\ rest.kind = "num"
         THEN Num(Head(values).num + rest.num)
         ELSE NaN

Shown == pc = "done" /\ "metrics" \in rendered

\* C8 as stated: the final total of each selected scenario is the last entry
\* of the running sum of its values, that is their sum, and zero when empty.
C8_FinalTotalIsSum ==
  Shown => \A n \in selected_scenarios :
             metric_totals[n] = SumValues(data.map[n].values)

\* C8 amended: the final total of each selected scenario is the last entry of
\* its values, and zero for a scenario without periods.
C8_FinalTotalIsLastValue ==
  Shown =>
    /\ DOMAIN metric_totals = selected_scenarios
    /\ \A n \in selected_scenarios :
         metric_totals[n] = IF data.map[n].values = <<>> THEN Num(0)
                            ELSE Last(data.map[n].values)

\* a selected scenario whose last value is neither its first value nor its sum
C8_Witness ==
  /\ Shown
  /\ \E n \in selected_scenarios :
       /\ Len(data.map[n].values) >= 2
       /\ Last(data.map[n].values) /= data.map[n].values[1]
       /\ Last(data.map[n].values) /= SumValues(data.map[n].values)

\* C9: a missing file gives no data and the upload is offered; a run in which
\* no call yields a scenario shows no metric, chart or table and shows the
\* waiting message.
C9_NoDataShowsWaiting ==
  /\ (pc \in {"file_loaded", "visualize"} /\ ~defaultFile.exists /\ call = "default")
       => data.none
  /\ (pc \in {"done", "crashed"} /\ ~defaultFile.exists) => "uploader" \in rendered
  /\ (pc \in {"done", "crashed"} /\ ~Truthy(data)) =>
       /\ rendered \cap {"metrics", "chart", "table"} = {}
       /\ "waiting" \in rendered

\* C10: every row read while resolving anchor R lies in 0..R.
C10_ReadsUpwardInBounds ==
  \A rd \in reads : 0 <= rd[2] /\ rd[2] <= rd[1]

\* row 0 was read as the name row or the years row of a lower anchor
C10_Witness ==
  /\ produced /= <<>>
  /\ Len(produced) \in Stored
  /\ Last(produced).q_row_idx = 1
  /\ <<Last(produced).row_idx, 0>> \in reads
  /\ Last(produced).row_idx > 1

====
